---- MODULE Spec2Model ----
(***************************************************************************)
(* Model of client/src/App.js: the React component App, its six pieces of  *)
(* state, its event handlers and the asynchronous completions (query       *)
(* fetch, upload fetch, FileReader load) the handlers start.               *)
(*                                                                         *)
(* A handler runs against the values of the render it was created in, so   *)
(* a completion callback uses the `response` its handler saw, not the      *)
(* value current when the callback runs: every outstanding request         *)
(* carries that captured value as `snap`.                                  *)
(***************************************************************************)
EXTENDS Integers, Sequences, FiniteSets, TLC

VARIABLES message, response, file, dragActive, csvData, showPreview,
          queries, uploads, reads, n

vars == <<message, response, file, dragActive, csvData, showPreview,
          queries, uploads, reads, n>>

(* ---------------------------------------------------------------- bounds *)
MaxOps == 2          \* sends, accepted files and rejected files in one run
MaxRows == 51        \* data rows of the largest file

(* ------------------------------------------------------------- constants *)
PreviewCap == 50
SeedText == "Upload a CSV file and then ask visualization questions"
InvalidCsvText == "Error: Please upload a valid CSV file."
UploadErrorText == "Error processing file."
CsvMime == "text/csv"

Undefined == "undefined"

(* ------------------------------------------------------------- messages *)
UserMsg(t) == [type |-> "user", text |-> t, chartSpec |-> Undefined]
BotMsg(t) == [type |-> "bot", text |-> t, chartSpec |-> Undefined]
BotChartMsg(c) == [type |-> "bot-chart", text |-> Undefined, chartSpec |-> c]

Seed == BotMsg(SeedText)

(* ----------------------------------------------------------------- inputs *)
\* what the user can type: the empty text, a word, a whitespace-only text
Texts == {"", "hello", " "}

\* what the backend can answer on /query
ReplyTexts == {"hi there"}
ChartAbsent == "absent"
ChartVals == {ChartAbsent, "null", "{}", "spec"}

Truthy_notMissing(c) == c # ChartAbsent

\* `if (data.chart)`: an absent field and JSON null are falsy, any object is truthy
Truthy(c) == c \notin {ChartAbsent, "null"}

\* files the picker or a drop can deliver; files[0] of an empty list is undefined
NullFile == [name |-> "null", type |-> Undefined, nrows |-> 0]
UndefinedFile == [name |-> Undefined, type |-> Undefined, nrows |-> 0]
CsvFiles == { [name |-> "a.csv", type |-> CsvMime, nrows |-> 2],
              [name |-> "b.csv", type |-> CsvMime, nrows |-> PreviewCap],
              [name |-> "c.csv", type |-> CsvMime, nrows |-> MaxRows] }
OtherFiles == { [name |-> "notes.txt", type |-> "text/plain", nrows |-> 2],
                [name |-> "sheet.csv", type |-> "application/vnd.ms-excel", nrows |-> 2] }
Files == CsvFiles \cup OtherFiles \cup {UndefinedFile}

(* ------------------------------------------------------- pure functions *)
Min(a, b) == IF a < b THEN a ELSE b

\* Array.prototype.slice(a, b) for 0 <= a, b
Slice(s, a, b) == SubSeq(s, a + 1, Min(b, Len(s)))

isCSV_loose(f) == f \notin {NullFile, UndefinedFile} /\ f.type \in {CsvMime, "text/plain"}

isCSV(f) == f \notin {NullFile, UndefinedFile} /\ f.type = CsvMime

\* FileReader.readAsText: the header line followed by one line per data row
ReadAsText(f) == <<[line |-> "header", of |-> f.name, cell |-> 0]>> \o
                 [i \in 1..f.nrows |-> [line |-> "data", of |-> f.name, cell |-> i]]

\* d3.csvParse(text, d3.autoType): one object per line after the header line
csvParse(text) == IF text = <<>> THEN <<>>
                  ELSE [i \in 1..(Len(text) - 1) |-> [of |-> text[i + 1].of, a |-> text[i + 1].cell]]

PreviewRows_all(parsed) == parsed

PreviewRows(parsed) == Slice(parsed, 0, PreviewCap)

NullData == [null |-> TRUE, rows |-> <<>>]
Data(rows) == [null |-> FALSE, rows |-> rows]

IsEmptyInput_never(m) == FALSE
IsEmptyInput_trim(m) == m \in {"", " "}

IsEmptyInput(m) == m = ""

InputAfterSend_keep(m) == m

InputAfterSend(m) == ""

QueryFold_noUser(snap, newMessage, text, chart) ==
    IF Truthy(chart) THEN snap \o <<BotChartMsg(chart), BotMsg(text)>>
    ELSE snap \o <<BotMsg(text)>>

QueryFold_live(snap, newMessage, text, chart) ==
    IF Truthy(chart) THEN response \o <<BotChartMsg(chart), BotMsg(text)>>
    ELSE response \o <<BotMsg(text)>>

QueryFold_fresh(snap, newMessage, text, chart) ==
    IF Truthy(chart) THEN <<newMessage, BotChartMsg(chart), BotMsg(text)>>
    ELSE <<newMessage, BotMsg(text)>>

QueryFold_replyFirst(snap, newMessage, text, chart) ==
    IF Truthy(chart) THEN snap \o <<BotChartMsg(chart), BotMsg(text), newMessage>>
    ELSE snap \o <<BotMsg(text), newMessage>>

QueryFold_textFirst(snap, newMessage, text, chart) ==
    IF Truthy(chart) THEN snap \o <<newMessage, BotMsg(text), BotChartMsg(chart)>>
    ELSE snap \o <<newMessage, BotMsg(text)>>

\* the .then(data => ...) callback of sendMessage
QueryFold(snap, newMessage, text, chart) ==
    IF Truthy(chart) THEN snap \o <<newMessage, BotChartMsg(chart), BotMsg(text)>>
    ELSE snap \o <<newMessage, BotMsg(text)>>

(* ------------------------------------------------------------------ Init *)
Init ==
    /\ message = ""
    /\ response = <<Seed>>
    /\ file = NullFile
    /\ dragActive = FALSE
    /\ csvData = NullData
    /\ showPreview = FALSE
    /\ queries = {}
    /\ uploads = {}
    /\ reads = {}
    /\ n = 0

(* --------------------------------------------------------------- actions *)
handleMessage(t) ==
    /\ message' = t
    /\ UNCHANGED <<response, file, dragActive, csvData, showPreview, queries, uploads, reads, n>>

sendMessage_aborts ==
    /\ IF IsEmptyInput(message)
       THEN UNCHANGED <<message, response, queries, n>>
       ELSE /\ n < MaxOps
            /\ response' = Append(response, UserMsg(message))
            /\ queries' = {[id |-> n + 1, prompt |-> message,
                            snap |-> response, newMessage |-> UserMsg(message)]}
            /\ n' = n + 1
            /\ message' = InputAfterSend(message)
    /\ UNCHANGED <<file, dragActive, csvData, showPreview, uploads, reads>>

sendMessage ==
    /\ IF IsEmptyInput(message)
       THEN UNCHANGED <<message, response, queries, n>>
       ELSE /\ n < MaxOps
            /\ response' = Append(response, UserMsg(message))
            /\ queries' = queries \cup {[id |-> n + 1, prompt |-> message,
                                         snap |-> response, newMessage |-> UserMsg(message)]}
            /\ n' = n + 1
            /\ message' = InputAfterSend(message)
    /\ UNCHANGED <<file, dragActive, csvData, showPreview, uploads, reads>>

queryResponse(q, text, chart) ==
    /\ q \in queries
    /\ response' = QueryFold(q.snap, q.newMessage, text, chart)
    /\ queries' = queries \ {q}
    /\ UNCHANGED <<message, file, dragActive, csvData, showPreview, uploads, reads, n>>

queryFail_reports(q) ==
    /\ q \in queries
    /\ queries' = queries \ {q}
    /\ response' = Append(response, BotMsg(UploadErrorText))
    /\ UNCHANGED <<message, file, dragActive, csvData, showPreview, uploads, reads, n>>

\* fetch or response.json() rejects: the chain has no catch
queryFail(q) ==
    /\ q \in queries
    /\ queries' = queries \ {q}
    /\ UNCHANGED <<message, response, file, dragActive, csvData, showPreview, uploads, reads, n>>

\* parseCSV: starts a FileReader whose onload runs later
parseCSV(f) == reads' = reads \cup {[id |-> n + 1, file |-> f]}

\* sendFile: `if (uploadedFile)` then one upload fetch, whose catch closes over `response`
sendFile(f) ==
    uploads' = IF f \notin {NullFile, UndefinedFile}
               THEN uploads \cup {[id |-> n + 1, file |-> f, snap |-> response]}
               ELSE uploads

RejectFile_sends(f) ==
    /\ n < MaxOps
    /\ response' = Append(response, BotMsg(InvalidCsvText))
    /\ sendFile(f)
    /\ n' = n + 1
    /\ UNCHANGED <<file, csvData, reads>>

\* the `if (!isCSV(...))` branch of handleFileUpload and handleDrop
RejectFile(f) ==
    /\ n < MaxOps
    /\ response' = Append(response, BotMsg(InvalidCsvText))
    /\ n' = n + 1
    /\ UNCHANGED <<file, csvData, uploads, reads>>

\* setFile; parseCSV; sendFile
AcceptFile(f) ==
    /\ n < MaxOps
    /\ file' = f
    /\ parseCSV(f)
    /\ sendFile(f)
    /\ n' = n + 1
    /\ UNCHANGED <<response, csvData>>

handleFileUpload_hidesPreview(f) ==
    /\ IF ~isCSV(f) THEN RejectFile(f) ELSE AcceptFile(f)
    /\ showPreview' = (showPreview /\ ~isCSV(f))
    /\ UNCHANGED <<message, dragActive, queries>>

handleFileUpload(f) ==
    /\ IF ~isCSV(f) THEN RejectFile(f) ELSE AcceptFile(f)
    /\ UNCHANGED <<message, dragActive, showPreview, queries>>

handleDrop(f) ==
    /\ dragActive' = FALSE
    /\ IF ~isCSV(f) THEN RejectFile(f) ELSE AcceptFile(f)
    /\ UNCHANGED <<message, showPreview, queries>>

\* reader.onload
fileLoaded(r) ==
    /\ r \in reads
    /\ csvData' = Data(PreviewRows(csvParse(ReadAsText(r.file))))
    /\ reads' = reads \ {r}
    /\ UNCHANGED <<message, response, file, dragActive, showPreview, queries, uploads, n>>

\* .then(response => response.json()) of sendFile: the payload is dropped
uploadDone(u) ==
    /\ u \in uploads
    /\ uploads' = uploads \ {u}
    /\ UNCHANGED <<message, response, file, dragActive, csvData, showPreview, queries, reads, n>>

uploadFailed_clearsPreview(u) ==
    /\ u \in uploads
    /\ response' = Append(u.snap, BotMsg(UploadErrorText))
    /\ uploads' = uploads \ {u}
    /\ csvData' = NullData
    /\ UNCHANGED <<message, file, dragActive, showPreview, queries, reads, n>>

\* .catch(() => ...) of sendFile
uploadFailed(u) ==
    /\ u \in uploads
    /\ response' = Append(u.snap, BotMsg(UploadErrorText))
    /\ uploads' = uploads \ {u}
    /\ UNCHANGED <<message, file, dragActive, csvData, showPreview, queries, reads, n>>

handleDrag ==
    /\ dragActive' = TRUE
    /\ UNCHANGED <<message, response, file, csvData, showPreview, queries, uploads, reads, n>>

handleDragLeave ==
    /\ dragActive' = FALSE
    /\ UNCHANGED <<message, response, file, csvData, showPreview, queries, uploads, reads, n>>

togglePreview ==
    /\ file # NullFile
    /\ showPreview' = ~showPreview
    /\ UNCHANGED <<message, response, file, dragActive, csvData, queries, uploads, reads, n>>

Next ==
    \/ \E t \in Texts : handleMessage(t)
    \/ sendMessage
    \/ \E q \in queries, text \in ReplyTexts, chart \in ChartVals : queryResponse(q, text, chart)
    \/ \E q \in queries : queryFail(q)
    \/ \E f \in Files : handleFileUpload(f)
    \/ \E f \in Files : handleDrop(f)
    \/ \E r \in reads : fileLoaded(r)
    \/ \E u \in uploads : uploadDone(u)
    \/ \E u \in uploads : uploadFailed(u)
    \/ handleDrag
    \/ handleDragLeave
    \/ togglePreview

Spec == Init /\ [][Next]_vars

\* the request issued by operation i is outstanding
Pending(i) == (\E q \in queries : q.id = i) \/ (\E u \in uploads : u.id = i)

\* the promise of request i settles: the fetch resolves or rejects, once
Complete(i) ==
    \/ \E q \in queries :
          /\ q.id = i
          /\ \/ queryFail(q)
             \/ \E text \in ReplyTexts, chart \in ChartVals : queryResponse(q, text, chart)
    \/ \E u \in uploads : u.id = i /\ (uploadDone(u) \/ uploadFailed(u))

\* the network settles every request: no request is left outstanding for ever
FairSpec == Spec /\ \A i \in 1..MaxOps : WF_vars(Complete(i))

(* ================================================================ claims *)
IsPrefix(s, t) == Len(s) <= Len(t) /\ SubSeq(t, 1, Len(s)) = s

NonCsv(f) == f \in {NullFile, UndefinedFile} \/ f.type # "text/csv"

QueryArrives == \E q \in queries, text \in ReplyTexts, chart \in ChartVals : queryResponse(q, text, chart)

\* C1: the conversation is append-only: every new conversation value has the
\* previous value as a prefix, under any interleaving of events and completions.
C1_AppendOnly == [][IsPrefix(response, response')]_vars

\* C2: a file whose type is not exactly text/csv (or no file), given to the picker
\* or dropped, appends exactly the one bot message "Error: Please upload a valid
\* CSV file." and leaves the file slot, the preview rows and the preview flag alone.
C2_RejectAppendsOneError ==
    [][\A f \in Files :
          (NonCsv(f) /\ (handleFileUpload(f) \/ handleDrop(f)))
          => /\ response' = Append(response, BotMsg("Error: Please upload a valid CSV file."))
             /\ UNCHANGED <<file, csvData, showPreview>>]_vars

\* a rejection has been appended while an accepted file, its loaded preview and
\* the open preview are all still in place
C2_Witness ==
    /\ response[Len(response)] = BotMsg("Error: Please upload a valid CSV file.")
    /\ file \in CsvFiles
    /\ ~csvData.null
    /\ showPreview

\* C3: a rejected file is never sent and never read: the outstanding upload
\* requests and file reads are the same before and after the rejection.
C3_RejectIssuesNothing ==
    [][\A f \in Files :
          (NonCsv(f) /\ (handleFileUpload(f) \/ handleDrop(f)))
          => /\ UNCHANGED <<uploads, reads>>
             /\ Cardinality(uploads') = Cardinality(uploads)
             /\ Cardinality(reads') = Cardinality(reads)]_vars

\* two rejections in a row from the start: nothing is outstanding, nothing stored
C3_Witness ==
    /\ response = <<Seed, BotMsg(InvalidCsvText), BotMsg(InvalidCsvText)>>
    /\ uploads = {}
    /\ reads = {}
    /\ file = NullFile

\* C4: sendMessage with empty input text changes nothing and issues no query.
C4_EmptySendIsNoOp ==
    [][(message = "" /\ sendMessage)
       => UNCHANGED <<message, response, file, dragActive, csvData, showPreview,
                      queries, uploads, reads, n>>]_vars

\* the input is empty while a query and an upload are outstanding and a file is
\* stored: an empty send here has all of that to leave alone
C4_Witness ==
    /\ message = ""
    /\ queries # {}
    /\ uploads # {}
    /\ file \in CsvFiles
    /\ ENABLED sendMessage

\* C5: sendMessage with non-empty text t, whitespace-only included, appends exactly
\* one user message with text t and issues exactly one query with prompt t,
\* whatever is outstanding.  (First conjunct: the call does append, it is not a
\* no-op; second: what any such call does.)
C5_SendAppendsAndQueries ==
    [][/\ (message # "" /\ n < MaxOps)
          => ENABLED (sendMessage /\ response' = Append(response, UserMsg(message)))
       /\ (message # "" /\ sendMessage)
          => /\ response' = Append(response, UserMsg(message))
             /\ \E q \in queries' :
                   /\ q \notin queries
                   /\ q.prompt = message
                   /\ queries' = queries \cup {q}
             /\ Cardinality(queries') = Cardinality(queries) + 1]_vars

\* a whitespace-only text was sent while an earlier query was still outstanding
C5_Witness ==
    /\ response = <<Seed, UserMsg("hello"), UserMsg(" ")>>
    /\ Cardinality(queries) = 2
    /\ \E q \in queries : q.prompt = " "

\* C6: when a query response arrives the conversation grows relative to its value
\* just before: chart then text (two messages) with a chart, one text without.
C6_ResponseGrowsLive ==
    [][\A q \in queries, text \in ReplyTexts, chart \in ChartVals :
          queryResponse(q, text, chart)
          => response' = response \o (IF Truthy(chart)
                                      THEN <<BotChartMsg(chart), BotMsg(text)>>
                                      ELSE <<BotMsg(text)>>)]_vars

\* C7: the input text is empty right after every send of non-empty text, and no
\* query completion (response or failure) writes the input text.
C7_InputClearedOnSend ==
    [][/\ (message # "" /\ sendMessage) => message' = ""
       /\ (QueryArrives \/ \E q \in queries : queryFail(q)) => message' = message]_vars

\* right after a send: input empty, the query not yet answered
C7_Witness ==
    /\ message = ""
    /\ Cardinality(queries) = 1
    /\ Len(response) = 2
    /\ response[2].type = "user"
    /\ n = 1

\* C8: single exchange from the start: the conversation is the seed greeting alone;
\* sending t makes it [seed, user t] with one query outstanding carrying t; a reply
\* r without chart makes it [seed, user t, bot r].
C8_SingleExchange ==
    [][/\ n = 0 => /\ response = <<BotMsg("Upload a CSV file and then ask visualization questions")>>
                   /\ Len(response) = 1
       /\ (n = 0 /\ message # "" /\ sendMessage)
          => /\ response' = <<Seed, UserMsg(message)>>
             /\ Len(response') = 2
             /\ \E q \in queries' : queries' = {q} /\ q.prompt = message
       /\ \A q \in queries, r \in ReplyTexts :
             (n = 1 /\ queryResponse(q, r, ChartAbsent))
             => /\ response' = <<Seed, UserMsg(q.prompt), BotMsg(r)>>
                /\ Len(response') = 3
                /\ response'[3] = BotMsg(r)]_vars

C8_Witness ==
    /\ response = <<Seed, UserMsg("hello"), BotMsg("hi there")>>
    /\ queries = {}
    /\ n = 1

\* C9: when the read of an accepted CSV with n data rows completes, the preview is
\* the first min(n, 50) data rows in file order; the preview never exceeds 50 rows.
C9_PreviewIsFirstFifty ==
    [][/\ \A r \in reads :
             fileLoaded(r)
             => /\ ~csvData'.null
                /\ Len(csvData'.rows) = Min(r.file.nrows, 50)
                /\ \A i \in 1..Len(csvData'.rows) :
                      csvData'.rows[i] = [of |-> r.file.name, a |-> i]
       /\ Len(csvData'.rows) <= 50]_vars

\* a file of more than 50 data rows has been read: the preview holds 50
C9_Witness ==
    /\ ~csvData.null
    /\ Len(csvData.rows) = 50
    /\ file.nrows > 50
    /\ reads = {}

\* C10: a failed upload appends the one bot message "Error processing file." to
\* the conversation as it stands at the failure; a successful one changes nothing.
C10_UploadOutcome ==
    [][\A u \in uploads :
          /\ uploadFailed(u) => response' = Append(response, BotMsg("Error processing file."))
          /\ uploadDone(u) => response' = response]_vars

\* C11: neither success nor failure of the upload request changes the stored
\* preview rows or the current-file slot, whether the file read completed before
\* the upload or is still to come.
C11_UploadLeavesPreview ==
    [][\A u \in uploads :
          (uploadDone(u) \/ uploadFailed(u)) => UNCHANGED <<csvData, file>>]_vars

\* the upload has failed after the read of the same file completed: the failure
\* message is shown and the preview of the stored file is in place
C11_Witness ==
    /\ response[Len(response)] = BotMsg(UploadErrorText)
    /\ file \in CsvFiles
    /\ csvData = Data(PreviewRows(csvParse(ReadAsText(file))))
    /\ reads = {}
    /\ uploads = {}
    /\ n = 1

\* C12: a query response sets the conversation to the snapshot captured when
\* sendMessage was called, plus the user message, plus the reply, whatever the
\* conversation is when the response arrives; with two overlapping exchanges a
\* message that was in the conversation is no longer in it.
C12_FoldUsesSnapshot ==
    [][/\ (message # "" /\ sendMessage)
          => \E q \in queries' \ queries :
                q.snap = response /\ q.newMessage = UserMsg(message)
       /\ \A q \in queries, text \in ReplyTexts, chart \in ChartVals :
             queryResponse(q, text, chart)
             => response' = q.snap \o <<UserMsg(q.prompt)>> \o
                            (IF chart \in {"{}", "spec"}
                             THEN <<BotChartMsg(chart), BotMsg(text)>>
                             ELSE <<BotMsg(text)>>)]_vars

\* "hello" then " " were sent before any reply; the first reply has arrived and
\* the second user message, once in the conversation, is gone
C12_Witness ==
    /\ response = <<Seed, UserMsg("hello"), BotMsg("hi there")>>
    /\ \E q \in queries : q.prompt = " " /\ q.snap = <<Seed, UserMsg("hello")>>
    /\ n = 2

\* C13: no cancellation: under fairness of the network every query or upload
\* request, once issued, completes or fails, and exactly once (it leaves the
\* outstanding requests only by its own completion and never returns); a send
\* made while a query is outstanding removes no outstanding request.
C13_NoCancellation ==
    /\ \A i \in 1..MaxOps : Pending(i) ~> ~Pending(i)
    /\ [][/\ \A i \in 1..MaxOps :
                /\ (Pending(i) /\ ~Pending(i)') => Complete(i)
                /\ (~Pending(i) /\ Pending(i)') => (i = n + 1 /\ n' = i)
          /\ sendMessage => (queries \subseteq queries' /\ uploads' = uploads)]_vars

\* two sends overlapped and both queries have completed
C13_Witness ==
    /\ n = 2
    /\ queries = {}
    /\ response = <<Seed, UserMsg("hello"), UserMsg(" "), BotMsg("hi there")>>

WellFormed(m, chartOk) ==
    IF m.type = "bot-chart"
    THEN m.chartSpec \in chartOk /\ m.text = Undefined
    ELSE m.type \in {"user", "bot"} /\ m.text # Undefined /\ m.chartSpec = Undefined

C15_FileSlotAndPreviewFlag ==
    [][/\ \A f \in Files :
             (~NonCsv(f) /\ (handleFileUpload(f) \/ handleDrop(f)))
             => (file' = f /\ showPreview' = showPreview)
       /\ showPreview' # showPreview => togglePreview
       /\ togglePreview
          => /\ showPreview' = ~showPreview
             /\ UNCHANGED <<message, response, file, dragActive, csvData,
                            queries, uploads, reads, n>>]_vars

\* a second CSV file has replaced the first while the preview was open
C15_Witness ==
    /\ showPreview
    /\ \E r1, r2 \in reads :
          /\ r1.id = 1
          /\ r2.id = 2
          /\ r1.file # r2.file
          /\ file = r2.file
    /\ csvData.null

\* C16: a failing query is dropped silently: the failure changes neither the
\* conversation nor the input text nor any other state; no bot message is
\* appended and the user message already appended stays.
C16_QueryFailureIsSilent ==
    [][\A q \in queries :
          queryFail(q)
          => /\ UNCHANGED <<message, response, file, dragActive, csvData,
                            showPreview, uploads, reads, n>>
             /\ queries' = queries \ {q}
             /\ (response = Append(q.snap, q.newMessage)
                 => response'[Len(response')] = UserMsg(q.prompt))]_vars

\* one send, whose query is no longer outstanding and left no reply: it failed
C16_Witness ==
    /\ n = 1
    /\ queries = {}
    /\ response = <<Seed, UserMsg("hello")>>
    /\ message = ""

\* C17: in every reachable state the conversation is non-empty and its first
\* element is the seed greeting, under any interleaving and stale snapshot.
C17_SeedStaysFirst ==
    /\ Len(response) >= 1
    /\ response[1] = BotMsg("Upload a CSV file and then ask visualization questions")

\* a stale upload failure has overwritten the conversation (the user message of
\* the outstanding query is gone): the seed is still first
C17_Witness ==
    /\ response = <<Seed, BotMsg(UploadErrorText)>>
    /\ queries # {}
    /\ n = 2

\* a completion that writes the conversation from a snapshot taken before some
\* other write: the conversation changed between the request and its completion
StaleCompletion ==
    \/ \E q \in queries, text \in ReplyTexts, chart \in ChartVals :
          queryResponse(q, text, chart) /\ response # Append(q.snap, q.newMessage)
    \/ \E u \in uploads : uploadFailed(u) /\ response # u.snap

\* C18: where operations do not overlap (the conversation did not change between
\* the issue of a request and its completion) the conversation is append-only:
\* each value has the previous one as a prefix and the length never decreases.
C18_AppendOnlyWithoutOverlap ==
    [][~StaleCompletion
       => (IsPrefix(response, response') /\ Len(response') >= Len(response))]_vars

\* two exchanges one after the other, the second sent after the first reply
C18_Witness ==
    /\ response = <<Seed, UserMsg("hello"), BotMsg("hi there"),
                    UserMsg(" "), BotChartMsg("spec"), BotMsg("hi there")>>
    /\ queries = {}
    /\ n = 2

\* C19: once every started file read has completed, the stored preview rows are
\* those parsed from the file in the current-file slot, also when two CSV files
\* are accepted in succession and their reads complete in either order.
C19_PreviewMatchesCurrentFile ==
    (reads = {} /\ file # NullFile)
    => /\ ~csvData.null
       /\ Len(csvData.rows) = Min(file.nrows, 50)
       /\ \A i \in 1..Len(csvData.rows) : csvData.rows[i] = [of |-> file.name, a |-> i]

IsReply(m) == m.type = "bot" /\ m.text \in ReplyTexts

\* every chart message sits between a user message and a reply text, every reply
\* text directly after a user message or after the chart of its response
RepliesAdjacent(conv) ==
    \A i \in 1..Len(conv) :
       /\ conv[i].type = "bot-chart"
          => /\ i > 1 /\ conv[i - 1].type = "user"
             /\ i < Len(conv) /\ IsReply(conv[i + 1])
       /\ IsReply(conv[i])
          => /\ i > 1
             /\ \/ conv[i - 1].type = "user"
                \/ conv[i - 1].type = "bot-chart" /\ i > 2 /\ conv[i - 2].type = "user"

\* C20: every reply of a query response sits directly after the user message of
\* its own query: a response writes the conversation so that it ends with that
\* user message, then the chart (if any), then the text; and in every state a
\* chart message is directly preceded by a user message and followed by the reply
\* text, a chartless reply directly preceded by a user message.
C20_ReplyFollowsItsUserMessage ==
    [][/\ RepliesAdjacent(response')
       /\ \A q \in queries, text \in ReplyTexts, chart \in ChartVals :
             queryResponse(q, text, chart)
             => LET k == Len(response') IN
                IF chart \in {"{}", "spec"}
                THEN /\ k >= 4
                     /\ SubSeq(response', k - 2, k)
                        = <<UserMsg(q.prompt), BotChartMsg(chart), BotMsg(text)>>
                ELSE /\ k >= 3
                     /\ SubSeq(response', k - 1, k) = <<UserMsg(q.prompt), BotMsg(text)>>]_vars

\* overlapping sends: the reply to the second query, chart and text, sits
\* directly after the second user message
C20_Witness ==
    /\ response = <<Seed, UserMsg("hello"), UserMsg(" "),
                    BotChartMsg("spec"), BotMsg("hi there")>>
    /\ n = 2

====
